---- MODULE Spec2Model ----
(***************************************************************************)
(* The healthcare dynamic-programming solvers of src/models:               *)
(*   "DP"       Healthcare_DP.py          deterministic, plateau-pruned    *)
(*   "NewDegen" HealthcareDP_NewDegen.py  deterministic, exhaustive-banked *)
(*   "Stoch"    HealthcareDP_Stoch.py     expectation over a health shock  *)
(* One behaviour is one HealthCareDP instance: its class, its calibration, *)
(* its solve cache and its enumeration cache, and the calls made on it.    *)
(*                                                                         *)
(* Arithmetic.  The code computes utilities in binary64.  Here a utility   *)
(* is an integer number of hundredths; 1 - exp(-alpha*x) is tabulated in   *)
(* thousandths.  A probability is a number of tenths.                      *)
(***************************************************************************)
EXTENDS Integers, Sequences, FiniteSets, TLC

VARIABLES
    solver,          \* the class of the instance: "DP", "NewDegen" or "Stoch"
    stochHitChance,  \* self.stochHitChance, in tenths (Stoch only)
    cache,           \* self.cache: post-transition DPState -> Solve result
    EnumCache,       \* self.EnumCache: str(cash) -> list of Investments
    ncalls,          \* number of calls made on the instance so far
    call,            \* the latest call: argument, result, and what it evaluated
    prev,            \* the call before it
    enumArg,         \* the state drawn at construction in SpecEnum and SpecPair
    enumRet          \* what the latest InvestmentEnum call returned

vars == <<solver, stochHitChance, cache, EnumCache, ncalls, call, prev, enumArg, enumRet>>

----------------------------------------------------------------------------
(* Bounds of the model *)

\* the horizon the instance is constructed with (numRounds)
numRounds == 2

\* calls made on one instance
MaxCalls == 2

\* largest cash amount handed to InvestmentEnum in SpecEnum
MaxCash == 125

----------------------------------------------------------------------------
(* Constants written in the code *)

\* health is capped at 100 in Invest
MaxHealth == 100

\* plateau-pruned: at most this much is left unspent
BankWindow == 20

\* exhaustive-banked: range(0, min(111, ...), 10)
BankLimit == 111

BankStep == 10

\* NewDegen: the extra degeneration of rounds 3 and 9
ShockDegen == 50

\* Stoch: health lost when the shock occurs
stochHitSize == 50

----------------------------------------------------------------------------
(* Value types *)

DPState(period, health, cash) ==
    [period |-> period, health |-> health, cash |-> cash]

Investment(healthExpenditure, lifeExpenditure, cashRemaining) ==
    [healthExpenditure |-> healthExpenditure,
     lifeExpenditure |-> lifeExpenditure,
     cashRemaining |-> cashRemaining]

\* Python's round(n/d) for n >= 0, d > 0: to the nearest integer, halves to even
RoundHalfEven(n, d) ==
    LET q == n \div d
        r == n % d
    IN  IF 2 * r < d THEN q
        ELSE IF 2 * r > d THEN q + 1
        ELSE IF q % 2 = 0 THEN q ELSE q + 1

\* round(enjoyment, 1): a utility in hundredths rounded to whole tenths
Round1(x) == 10 * RoundHalfEven(x, 10)

\* str(cash): the decimal digits of a natural number, the key of EnumCache
RECURSIVE Str(_)
Str(n) == IF n < 10 THEN <<n>> ELSE Append(Str(n \div 10), n % 10)

----------------------------------------------------------------------------
(* Calibrations the instances are constructed with *)

\* Healthcare_DP.py: RegenerationStrategy(gamma=6, sigma=0.6, r=3),
\* LifeEnjoymentStrategy(alpha=1, beta=1, mu=0.1, c=10),
\* DegenerationStrategy(7.625, 0.25, 18), HarvestStrategy(3).
\* regenSteps[k] is the least investment whose HealthRegained is k;
\* expTerm[x+1] is 1000*(1 - exp(-alpha*x)), which is 1000 from x = 8 on.
DPCalibration ==
    [regenSteps |-> <<2, 3, 4, 5, 6, 65>>,
     expTerm    |-> <<0, 632, 865, 950, 982, 993, 998, 999, 1000>>,
     expTermBelow |-> <<-1718, -6389, -19086>>,
     beta       |-> 1,
     muTenths   |-> 1,
     c          |-> 10,
     interceptThousandths |-> 7625,
     slopeThousandths     |-> 250,
     horizon    |-> 18,
     maxHarvest |-> 3]

\* HealthcareDP_NewDegen.py: RegenerationStrategy(d=10, k=50),
\* LifeEnjoymentStrategy(j=50), DegenerationStrategy(degen=10), HarvestStrategy(3)
NewDegenCalibration ==
    [d |-> 10, k |-> 50, j |-> 50, degen |-> 10, maxHarvest |-> 3]

\* HealthcareDP_Stoch.py: the strategies package it imports, with the
\* constructor signatures of main(): RegenerationStrategy(gamma, sigma, r),
\* LifeEnjoymentStrategy(alpha, beta, mu, c), DegenerationStrategy(7.625, 0.25),
\* HarvestStrategy(3)
StochCalibration ==
    [regenSteps |-> <<2, 3, 4, 5, 6, 65>>,
     expTerm    |-> <<0, 632, 865, 950, 982, 993, 998, 999, 1000>>,
     beta       |-> 1,
     muTenths   |-> 1,
     c          |-> 10,
     interceptThousandths |-> 7625,
     slopeThousandths     |-> 250,
     maxHarvest |-> 3]

\* the shock probabilities an instance may be constructed with, in tenths
HitChances == {0, 2, 10}

Solvers == {"DP", "NewDegen", "Stoch"}

----------------------------------------------------------------------------
(* Strategy functions *)

\* 1000 * (1 - exp(-alpha * investment)) from a calibration's table
ExpTerm(table, investment) ==
    IF investment + 1 >= Len(table) THEN table[Len(table)] ELSE table[investment + 1]

\* Healthcare_DP.py RegenerationStrategy.HealthRegained:
\* int(gamma * (1 - exp(-sigma*x)) / (1 + exp(-sigma*(x - r))))
DPHealthRegained(investment) ==
    Cardinality({k \in DOMAIN DPCalibration.regenSteps :
                    DPCalibration.regenSteps[k] <= investment})

\* Healthcare_DP.py: 1000 * (1 - math.exp((-1) * self.alpha * investment)), which
\* is below 0 for an investment below 0 (tabulated for the first few, the
\* last entry standing for every lower one)
DPExpTerm(investment) ==
    IF investment < 0
    THEN DPCalibration.expTermBelow[IF -investment > Len(DPCalibration.expTermBelow)
                                    THEN Len(DPCalibration.expTermBelow)
                                    ELSE -investment]
    ELSE ExpTerm(DPCalibration.expTerm, investment)

\* Healthcare_DP.py LifeEnjoymentStrategy.LifeEnjoyment:
\* c * (beta * (health/100) + mu) * (1 - exp(-alpha * investment)), in hundredths
DPLifeEnjoyment(investment, currentHealth) ==
    (DPCalibration.c * (DPCalibration.beta * currentHealth + 10 * DPCalibration.muTenths)
        * DPExpTerm(investment)) \div 1000

\* Healthcare_DP.py DegenerationStrategy.HealthDegeneration
DPHealthDegeneration(currentHealth, currentRound) ==
    LET i == DPCalibration.interceptThousandths
        s == DPCalibration.slopeThousandths
        Max0(x) == IF x > 0 THEN x ELSE 0
    IN  IF currentRound <= DPCalibration.horizon
        THEN Max0(currentHealth - RoundHalfEven(i + s * currentRound, 1000))
        ELSE Max0(currentHealth - RoundHalfEven(i + 2 * s * currentRound, 1000))

\* HealthcareDP_NewDegen.py RegenerationStrategy.HealthRegained:
\* int((100-health) * ((investment - d*(1 - health/100)) / (investment + k)))
NewDegenHealthRegained(investment, health) ==
    IF investment <= 0 THEN 0
    ELSE LET num == (100 - health)
                      * (100 * investment - NewDegenCalibration.d * (100 - health))
             den == 100 * (investment + NewDegenCalibration.k)
         IN  IF num <= 0 THEN 0 ELSE num \div den

\* HealthcareDP_NewDegen.py LifeEnjoymentStrategy.LifeEnjoyment:
\* health * (investment / (investment + j)), in hundredths
NewDegenLifeEnjoyment(investment, currentHealth) ==
    IF investment <= 0 THEN 0
    ELSE (100 * currentHealth * investment) \div (investment + NewDegenCalibration.j)

\* HealthcareDP_NewDegen.py DegenerationStrategy.HealthDegeneration
NewDegenHealthDegeneration(currentHealth, currentRound) ==
    LET Max0(x) == IF x > 0 THEN x ELSE 0
    IN  IF currentRound = 3 \/ currentRound = 9
        THEN Max0(currentHealth - (NewDegenCalibration.degen + ShockDegen))
        ELSE Max0(currentHealth - NewDegenCalibration.degen)

\* strategies.RegenerationStrategy of the Stoch solver
StochHealthRegained(investment) ==
    IF investment <= 0 THEN 0
    ELSE Cardinality({k \in DOMAIN StochCalibration.regenSteps :
                         StochCalibration.regenSteps[k] <= investment})

\* strategies.LifeEnjoymentStrategy of the Stoch solver
StochLifeEnjoyment(investment, currentHealth) ==
    IF investment <= 0 THEN 0
    ELSE (StochCalibration.c
            * (StochCalibration.beta * currentHealth + 10 * StochCalibration.muTenths)
            * ExpTerm(StochCalibration.expTerm, investment)) \div 1000

\* strategies.DegenerationStrategy of the Stoch solver
StochHealthDegeneration(currentHealth, currentRound) ==
    LET dec == RoundHalfEven(StochCalibration.interceptThousandths
                               + StochCalibration.slopeThousandths * currentRound, 1000)
    IN  IF currentHealth - dec > 0 THEN currentHealth - dec ELSE 0

\* a harvest that shrinks as the health grows
HarvestAmountOfFrail(maxHarvest, currentHealth) ==
    RoundHalfEven(maxHarvest * (MaxHealth - currentHealth), 100)

\* HarvestStrategy.HarvestAmount: int(round(maxHarvest * currentHealth / 100))
HarvestAmountOf(maxHarvest, currentHealth) ==
    RoundHalfEven(maxHarvest * currentHealth, 100)

\* self.regenStrat.HealthRegained of the instance
HealthRegained(investment, health) ==
    CASE solver = "DP"       -> DPHealthRegained(investment)
      [] solver = "NewDegen" -> NewDegenHealthRegained(investment, health)
      [] solver = "Stoch"    -> StochHealthRegained(investment)

\* self.enjoymentStrat.LifeEnjoyment of the instance
LifeEnjoyment(investment, currentHealth) ==
    CASE solver = "DP"       -> DPLifeEnjoyment(investment, currentHealth)
      [] solver = "NewDegen" -> NewDegenLifeEnjoyment(investment, currentHealth)
      [] solver = "Stoch"    -> StochLifeEnjoyment(investment, currentHealth)

\* self.degenStrat.HealthDegeneration of the instance
HealthDegeneration(currentHealth, currentRound) ==
    CASE solver = "DP"       -> DPHealthDegeneration(currentHealth, currentRound)
      [] solver = "NewDegen" -> NewDegenHealthDegeneration(currentHealth, currentRound)
      [] solver = "Stoch"    -> StochHealthDegeneration(currentHealth, currentRound)

\* self.harvestStrat.HarvestAmount of the instance
HarvestAmount(currentHealth) ==
    CASE solver = "DP"       -> HarvestAmountOf(DPCalibration.maxHarvest, currentHealth)
      [] solver = "NewDegen" -> HarvestAmountOf(NewDegenCalibration.maxHarvest, currentHealth)
      [] solver = "Stoch"    -> HarvestAmountOf(StochCalibration.maxHarvest, currentHealth)

----------------------------------------------------------------------------
(* Transition and Invest *)

\* a transition that harvests from the health left after the decay
TransitionHarvestAfterDecay(state) ==
    DPState(state.period + 1,
            HealthDegeneration(state.health, state.period + 1),
            state.cash + HarvestAmount(HealthDegeneration(state.health, state.period + 1)))

\* HealthCareDP.Transition: one round passes before the investment
Transition(state) ==
    LET nextPeriod == state.period + 1
    IN  DPState(nextPeriod,
                HealthDegeneration(state.health, nextPeriod),
                state.cash + HarvestAmount(state.health))

\* min(100, state.health + regained)
EndHealth(health, regained) ==
    IF health + regained < MaxHealth THEN health + regained ELSE MaxHealth

\* an investment that leaves the cash of the state as it was
InvestKeepsCash(state, investment) ==
    LET endHealth == EndHealth(state.health,
                               HealthRegained(investment.healthExpenditure, state.health))
    IN  [state  |-> DPState(state.period, endHealth, state.cash),
         enjoy  |-> LifeEnjoyment(investment.lifeExpenditure, endHealth)]

\* HealthCareDP.Invest: (new state, life enjoyment gained)
Invest(state, investment) ==
    LET endHealth == EndHealth(state.health,
                               HealthRegained(investment.healthExpenditure, state.health))
    IN  [state  |-> DPState(state.period, endHealth, investment.cashRemaining),
         enjoy  |-> LifeEnjoyment(investment.lifeExpenditure, endHealth)]

----------------------------------------------------------------------------
(* InvestmentEnum *)

\* a remainder that forgets the health expenditure
CashRemainingLessLife(cash, healthExpenditure, lifeExpenditure) ==
    cash - lifeExpenditure

\* what is neither invested in health nor spent on life enjoyment
CashRemaining(cash, healthExpenditure, lifeExpenditure) ==
    cash - healthExpenditure - lifeExpenditure

\* plateau-pruned: the Investments of one retained healthExpenditure,
\* lifeExpenditure in range(max(cash - healthExpenditure - 20, 0), cash + 1 - healthExpenditure)
PrunedRow(cash, healthExpenditure) ==
    LET lo == IF cash - healthExpenditure - BankWindow > 0
              THEN cash - healthExpenditure - BankWindow ELSE 0
        n  == cash + 1 - healthExpenditure - lo
    IN  [i \in 1..n |->
            Investment(healthExpenditure, lo + i - 1,
                       CashRemaining(cash, healthExpenditure, lo + i - 1))]

\* an iteration that retains every healthExpenditure
PrunedStepKeepAll(cash, healthExpenditure, st) ==
    [prev |-> st.prev,
     potentialStates |-> st.potentialStates \o PrunedRow(cash, healthExpenditure)]

\* an iteration that retains the last expenditure of a plateau, not the first
PrunedStepKeepLast(cash, healthExpenditure, st) ==
    LET Gain(h) == IF solver = "Stoch" THEN StochHealthRegained(h)
                   ELSE DPHealthRegained(h)
    IN  IF healthExpenditure < cash /\ Gain(healthExpenditure + 1) = Gain(healthExpenditure)
        THEN st
        ELSE [prev |-> Gain(healthExpenditure),
              potentialStates |-> st.potentialStates \o PrunedRow(cash, healthExpenditure)]

\* plateau-pruned: one iteration of the loop over healthExpenditure;
\* st.prev is the gain of the expenditure retained last (-1 before the first)
PrunedStep(cash, healthExpenditure, st) ==
    LET hr == IF solver = "Stoch" THEN StochHealthRegained(healthExpenditure)
              ELSE DPHealthRegained(healthExpenditure)
    IN  IF hr = st.prev THEN st
        ELSE [prev |-> hr,
              potentialStates |-> st.potentialStates \o PrunedRow(cash, healthExpenditure)]

\* plateau-pruned: the iterations lo..hi of the loop, in order
RECURSIVE PrunedLoop(_, _, _, _)
PrunedLoop(cash, lo, hi, st) ==
    IF lo > hi THEN st
    ELSE IF lo = hi THEN PrunedStep(cash, lo, st)
    ELSE LET mid == (lo + hi) \div 2
             left == PrunedLoop(cash, lo, mid, st)
         IN  IF Len(left.potentialStates) >= 0   \* the first half is evaluated first
             THEN PrunedLoop(cash, mid + 1, hi, left)
             ELSE left

\* a row that banks any multiple of the step, however large
BankedRowNoLimit(cash, healthExpenditure) ==
    [i \in 1..((cash - healthExpenditure + BankStep) \div BankStep) |->
        Investment(healthExpenditure,
                   cash - healthExpenditure - BankStep * (i - 1),
                   BankStep * (i - 1))]

\* exhaustive-banked: the Investments of one healthExpenditure,
\* bankedCash in range(0, min(111, cash - healthExpenditure + 1), 10)
BankedRow(cash, healthExpenditure) ==
    LET stop == IF BankLimit < cash - healthExpenditure + 1
                THEN BankLimit ELSE cash - healthExpenditure + 1
        n    == (stop + BankStep - 1) \div BankStep
    IN  [i \in 1..n |->
            Investment(healthExpenditure,
                       cash - healthExpenditure - BankStep * (i - 1),
                       BankStep * (i - 1))]

\* exhaustive-banked: the iterations lo..hi of the loop over healthExpenditure,
\* in order
RECURSIVE BankedLoop(_, _, _, _)
BankedLoop(cash, lo, hi, potentialStates) ==
    IF lo > hi THEN potentialStates
    ELSE IF lo = hi THEN potentialStates \o BankedRow(cash, lo)
    ELSE LET mid == (lo + hi) \div 2
             left == BankedLoop(cash, lo, mid, potentialStates)
         IN  IF Len(left) >= 0                   \* the first half is evaluated first
             THEN BankedLoop(cash, mid + 1, hi, left)
             ELSE left

\* HealthCareDP.InvestmentEnum of Healthcare_DP.py and HealthcareDP_Stoch.py:
\* the list returned and the enumeration cache afterwards
InvestmentEnumPruned(enum, cash) ==
    IF Str(cash) \in DOMAIN enum
    THEN [list |-> enum[Str(cash)], enum |-> enum]
    ELSE LET Store(potentialStates) ==
                 [list |-> potentialStates,
                  enum |-> (Str(cash) :> potentialStates) @@ enum]
         IN  Store(PrunedLoop(cash, 0, cash,
                              [prev |-> -1, potentialStates |-> <<>>]).potentialStates)

\* HealthCareDP.InvestmentEnum of HealthcareDP_NewDegen.py
InvestmentEnumBanked(enum, cash, health) ==
    IF Str(cash) \in DOMAIN enum
    THEN [list |-> enum[Str(cash)], enum |-> enum]
    ELSE LET Store(potentialStates) ==
                 [list |-> potentialStates,
                  enum |-> (Str(cash) :> potentialStates) @@ enum]
         IN  Store(BankedLoop(cash, 0, cash, <<>>))

\* self.InvestmentEnum as StateEnum calls it
InvestmentEnum(enum, state) ==
    IF solver = "NewDegen"
    THEN InvestmentEnumBanked(enum, state.cash, state.health)
    ELSE InvestmentEnumPruned(enum, state.cash)

----------------------------------------------------------------------------
(* StateEnum *)

\* an iteration that appends whatever Invest returns
StateEnumStepKeepAll(state, investment, allStateEnjoyments) ==
    Append(allStateEnjoyments, Invest(state, investment))

\* one iteration of the loop of StateEnum: append Invest(state, investment)
\* unless it is already listed
StateEnumStep(state, investment, allStateEnjoyments) ==
    LET newStateEnjoyment == Invest(state, investment)
    IN  IF \E k \in DOMAIN allStateEnjoyments :
               allStateEnjoyments[k] = newStateEnjoyment
        THEN allStateEnjoyments
        ELSE Append(allStateEnjoyments, newStateEnjoyment)

\* the iterations lo..hi of the loop of StateEnum, in order
RECURSIVE StateEnumLoop(_, _, _, _, _)
StateEnumLoop(state, investments, lo, hi, allStateEnjoyments) ==
    IF lo > hi THEN allStateEnjoyments
    ELSE IF lo = hi THEN StateEnumStep(state, investments[lo], allStateEnjoyments)
    ELSE LET mid == (lo + hi) \div 2
             left == StateEnumLoop(state, investments, lo, mid, allStateEnjoyments)
         IN  IF Len(left) >= 0                   \* the first half is evaluated first
             THEN StateEnumLoop(state, investments, mid + 1, hi, left)
             ELSE left

\* HealthCareDP.StateEnum: the (state, enjoyment) pairs and the enumeration cache
StateEnum(enum, state) ==
    LET Enumerate(investments) ==
            [list |-> StateEnumLoop(state, investments.list, 1,
                                    Len(investments.list), <<>>),
             enum |-> investments.enum]
    IN  Enumerate(InvestmentEnum(enum, state))

----------------------------------------------------------------------------
(* Solve results.  A Python tuple is a record here: the triple               *)
(* (state, totalValue, enjoyment) has the fields next, total, enjoy; the     *)
(* pair (0, 0) has first, total; the Stoch result                            *)
(* (highestReturn, hitStateHighestReturn, expected_value) has normal, hit,   *)
(* expected; a DPState used as a tuple has period, health, cash.             *)

\* (newState, 0, 0)
TerminalResult(newState) == [next |-> newState, total |-> 0, enjoy |-> 0]

\* (state, totalValue, round(enjoyment, 1))
Winner(state, totalValue, enjoyment) ==
    [next |-> state, total |-> totalValue, enjoy |-> Round1(enjoyment)]

\* Healthcare_DP.py: highestReturn = (0, 0)
DPPlaceholder == [first |-> 0, total |-> 0]

\* HealthcareDP_NewDegen.py: highestReturn = (DPState(0, 0, 0), 0, 0)
NewDegenPlaceholder == [next |-> DPState(0, 0, 0), total |-> 0, enjoy |-> 0]

\* HealthcareDP_Stoch.py: highestReturn = DPState(0, 0, -1)
StochPlaceholder == DPState(0, 0, -1)

\* the value highestReturn starts from
Placeholder ==
    CASE solver = "DP"       -> DPPlaceholder
      [] solver = "NewDegen" -> NewDegenPlaceholder
      [] solver = "Stoch"    -> StochPlaceholder

\* t[1] of a tuple
Index1(t) ==
    IF "total" \in DOMAIN t THEN t.total
    ELSE IF "health" \in DOMAIN t THEN t.health
    ELSE t.hit

\* t[2] of a tuple of three
Index2(t) ==
    IF "expected" \in DOMAIN t THEN t.expected
    ELSE IF "enjoy" \in DOMAIN t THEN t.enjoy
    ELSE t.cash

\* a terminal test that looks at the period only
TerminalPeriodOnly(newState) == newState.period > numRounds

\* a terminal test that lets the game run one period past numRounds
TerminalLate(newState) == newState.period > numRounds + 1 \/ newState.health <= 0

\* newState.period > self.numRounds or newState.health <= 0
Terminal(newState) == newState.period > numRounds \/ newState.health <= 0

\* a lookup that never finds the state
InCacheNever(c, newState) == FALSE

\* newState in self.cache
InCache(c, newState) == newState \in DOMAIN c

\* Stoch: DPState(newState[0], max(newState[1] - self.stochHitSize, 0), newState[2])
HitState(newState) ==
    DPState(newState.period,
            IF newState.health - stochHitSize > 0
            THEN newState.health - stochHitSize ELSE 0,
            newState.cash)

\* a future value read from the normal branch of a Stoch result
FutureNormalBranch(ret) ==
    IF "normal" \in DOMAIN ret THEN Index1(ret.normal) ELSE Index1(ret)

\* what a candidate's recursive Solve contributes: self.Solve(state)[1] in the
\* deterministic solvers, self.Solve(state)[2] in the Stoch solver
Future(ret) == IF solver = "Stoch" THEN Index2(ret) ELSE Index1(ret)

\* a total that leaves the future out
TotalValueNoFuture(enjoyment, future) == enjoyment

\* totalValue = enjoyment + future
TotalValue(enjoyment, future) == enjoyment + future

\* a comparison that lets an equal total replace the best
BetterOrEqual(totalValue, highestReturn) ==
    totalValue >= Index1(highestReturn)

\* totalValue > highestReturn[1]
Better(totalValue, highestReturn) == totalValue > Index1(highestReturn)

\* an expectation with the two weights exchanged
ExpectedValueSwapped(p, normalTotal, hitTotal) ==
    (p * normalTotal + (10 - p) * hitTotal) \div 10

\* an expectation that does not discount the normal branch
ExpectedValueUnweighted(p, normalTotal, hitTotal) ==
    (10 * normalTotal + p * hitTotal) \div 10

\* Stoch: (1 - p) * highestReturn[1] + p * hitStateHighestReturn[1], p in tenths
ExpectedValue(p, normalTotal, hitTotal) ==
    ((10 - p) * normalTotal + p * hitTotal) \div 10

\* a store that keeps a worthless result instead of the one computed
CacheStoreWorthless(c, newState, entry) == (newState :> TerminalResult(newState)) @@ c

\* a store that forgets every other entry
CacheStoreAlone(c, newState, entry) == (newState :> entry)

\* a store that files the result under the period after newState's
CacheStoreNextPeriod(c, newState, entry) ==
    (DPState(newState.period + 1, newState.health, newState.cash) :> entry) @@ c

\* a store that writes the new result over every entry
CacheStoreOverAll(c, newState, entry) ==
    [k \in DOMAIN c \cup {newState} |-> entry]

\* self.cache[newState] = entry
CacheStore(c, newState, entry) == (newState :> entry) @@ c

----------------------------------------------------------------------------
(* Solve.  mem is the pair of caches of the instance, threaded through the   *)
(* recursion: [cache, enum], together with writes, the keys of self.cache in *)
(* the order the call assigned them.                                         *)
(* The depth of a result is the number of Solve frames on the stack at the   *)
(* deepest point of the call, the call itself included.                      *)

RECURSIVE SolveDet(_, _), SolveStoch(_, _), SolveLoop(_, _, _, _), SolveStep(_, _)

\* self.Solve of the instance
Solve(mem, currentState) ==
    IF solver = "Stoch" THEN SolveStoch(mem, currentState)
    ELSE SolveDet(mem, currentState)

\* one iteration of "for (state, enjoyment) in stateEnjoyments"; st holds the
\* caches, highestReturn (best), what the iterations so far evaluated (seen)
\* and the deepest of their recursive calls (deep)
SolveStep(stateEnjoyment, st) ==
    LET state     == stateEnjoyment.state
        enjoyment == stateEnjoyment.enjoy
        Compare(mem, depth, future, totalValue) ==
            [mem  |-> mem,
             deep |-> IF depth > st.deep THEN depth ELSE st.deep,
             best |-> IF Better(totalValue, st.best)
                      THEN Winner(state, totalValue, enjoyment)
                      ELSE st.best,
             seen |-> Append(st.seen, [state |-> state, enjoy |-> enjoyment,
                                       future |-> future, total |-> totalValue])]
        Recurse(sub) ==
            Compare(sub.mem, sub.depth, Future(sub.ret),
                    TotalValue(enjoyment, Future(sub.ret)))
    IN  Recurse(Solve(st.mem, state))

\* the iterations lo..hi of the loop, in order
SolveLoop(stateEnjoyments, lo, hi, st) ==
    IF lo > hi THEN st
    ELSE IF lo = hi THEN SolveStep(stateEnjoyments[lo], st)
    ELSE LET mid == (lo + hi) \div 2
             left == SolveLoop(stateEnjoyments, lo, mid, st)
         IN  IF Len(left.seen) >= 0              \* the first half is evaluated first
             THEN SolveLoop(stateEnjoyments, mid + 1, hi, left)
             ELSE left

\* HealthCareDP.Solve of Healthcare_DP.py and HealthcareDP_NewDegen.py
SolveDet(mem, currentState) ==
    LET Store(newState, loop) ==
            [mem |-> [cache  |-> CacheStore(loop.mem.cache, newState, loop.best),
                      enum   |-> loop.mem.enum,
                      writes |-> Append(loop.mem.writes, newState)],
             ret |-> loop.best, path |-> "computed", depth |-> 1 + loop.deep,
             newState |-> newState, cands |-> loop.seen, hitCands |-> <<>>]
        Search(newState, stateEnjoyments) ==
            Store(newState,
                  SolveLoop(stateEnjoyments.list, 1, Len(stateEnjoyments.list),
                            [mem  |-> [cache  |-> mem.cache,
                                       enum   |-> stateEnjoyments.enum,
                                       writes |-> mem.writes],
                             deep |-> 0, best |-> Placeholder, seen |-> <<>>]))
        After(newState) ==
            IF Terminal(newState)
            THEN [mem |-> mem, ret |-> TerminalResult(newState), path |-> "terminal",
                  depth |-> 1, newState |-> newState, cands |-> <<>>, hitCands |-> <<>>]
            ELSE IF InCache(mem.cache, newState)
            THEN [mem |-> mem, ret |-> mem.cache[newState], path |-> "cached",
                  depth |-> 1, newState |-> newState, cands |-> <<>>, hitCands |-> <<>>]
            ELSE Search(newState, StateEnum(mem.enum, newState))
    IN  After(Transition(currentState))

\* HealthCareDP.Solve of HealthcareDP_Stoch.py
SolveStoch(mem, currentState) ==
    LET Store(newState, loop, hitLoop, expected_value) ==
            [mem |-> [cache |-> CacheStore(hitLoop.mem.cache, newState,
                                           [normal |-> loop.best, hit |-> hitLoop.best,
                                            expected |-> expected_value]),
                      enum   |-> hitLoop.mem.enum,
                      writes |-> Append(hitLoop.mem.writes, newState)],
             ret |-> [normal |-> loop.best, hit |-> hitLoop.best,
                      expected |-> expected_value],
             path |-> "computed", depth |-> 1 + hitLoop.deep,
             newState |-> newState, cands |-> loop.seen, hitCands |-> hitLoop.seen]
        Blend(newState, loop, hitLoop) ==
            Store(newState, loop, hitLoop,
                  ExpectedValue(stochHitChance, Index1(loop.best), Index1(hitLoop.best)))
        SearchHit(newState, hitStateEnjoyments, loop) ==
            Blend(newState, loop,
                  SolveLoop(hitStateEnjoyments.list, 1, Len(hitStateEnjoyments.list),
                            [mem  |-> loop.mem, deep |-> loop.deep,
                             best |-> Placeholder, seen |-> <<>>]))
        Search(newState, stateEnjoyments, hitStateEnjoyments) ==
            SearchHit(newState, hitStateEnjoyments,
                      SolveLoop(stateEnjoyments.list, 1, Len(stateEnjoyments.list),
                                [mem  |-> [cache  |-> mem.cache,
                                           enum   |-> hitStateEnjoyments.enum,
                                           writes |-> mem.writes],
                                 deep |-> 0, best |-> Placeholder, seen |-> <<>>]))
        Enumerate(newState, stateEnjoyments) ==
            Search(newState, stateEnjoyments,
                   StateEnum(stateEnjoyments.enum, HitState(newState)))
        After(newState) ==
            IF Terminal(newState)
            THEN [mem |-> mem, ret |-> TerminalResult(newState), path |-> "terminal",
                  depth |-> 1, newState |-> newState, cands |-> <<>>, hitCands |-> <<>>]
            ELSE IF InCache(mem.cache, newState)
            THEN [mem |-> mem, ret |-> mem.cache[newState], path |-> "cached",
                  depth |-> 1, newState |-> newState, cands |-> <<>>, hitCands |-> <<>>]
            ELSE Enumerate(newState, StateEnum(mem.enum, newState))
    IN  After(Transition(currentState))

----------------------------------------------------------------------------
(* The instance and the calls made on it *)

\* the states Solve is called with: the start of a game, a state whose shock
\* exhausts the health, a state that harvests nothing, an exhausted state,
\* a state after the first round, and states of the last rounds and beyond
StartStates ==
    {DPState(0, 85, 0), DPState(0, 50, 0), DPState(0, 16, 0), DPState(0, 0, 2),
     DPState(1, 77, 0),
     DPState(numRounds - 1, 85, 12), DPState(numRounds, 85, 3),
     DPState(numRounds + 1, 85, 0)}

NoCall ==
    [op |-> "none", arg |-> DPState(0, 0, 0), ret |-> TerminalResult(DPState(0, 0, 0)),
     path |-> "none", newState |-> DPState(0, 0, 0), cands |-> <<>>, hitCands |-> <<>>,
     writes |-> <<>>, depth |-> 0]

\* HealthCareDP.__init__
Init ==
    /\ solver \in Solvers
    /\ stochHitChance \in (IF solver = "Stoch" THEN HitChances ELSE {0})
    /\ cache = [k \in {} |-> 0]
    /\ EnumCache = [k \in {} |-> 0]
    /\ ncalls = 0
    /\ call = NoCall
    /\ prev = NoCall
    /\ enumArg = DPState(0, 0, 0)
    /\ enumRet = <<>>

\* a call self.Solve(currentState) from outside, with everything it does
SolveCall(currentState) ==
    /\ ncalls < MaxCalls
    /\ LET Return(r) ==
               /\ cache' = r.mem.cache
               /\ EnumCache' = r.mem.enum
               /\ call' = [op |-> "Solve", arg |-> currentState, ret |-> r.ret,
                           path |-> r.path, newState |-> r.newState,
                           cands |-> r.cands, hitCands |-> r.hitCands,
                           writes |-> r.mem.writes, depth |-> r.depth]
       IN  Return(Solve([cache |-> cache, enum |-> EnumCache, writes |-> <<>>],
                        currentState))
    /\ prev' = call
    /\ ncalls' = ncalls + 1
    /\ UNCHANGED <<solver, stochHitChance, enumArg, enumRet>>

\* Solve on a Healthcare_DP.py instance
SolveDP(currentState) == solver = "DP" /\ SolveCall(currentState)

\* Solve on a HealthcareDP_NewDegen.py instance
SolveNewDegen(currentState) == solver = "NewDegen" /\ SolveCall(currentState)

\* Solve on a HealthcareDP_Stoch.py instance
SolveStochastic(currentState) == solver = "Stoch" /\ SolveCall(currentState)

Next ==
    \E currentState \in StartStates :
        \/ SolveDP(currentState)
        \/ SolveNewDegen(currentState)
        \/ SolveStochastic(currentState)

Spec == Init /\ [][Next]_vars

----------------------------------------------------------------------------
(* Trajectory extraction.  FindStrat subscripts what Solve returns; a Python  *)
(* int standing where the code expects a tuple is [int |-> n], and a         *)
(* subscript or attribute access on it raises.                                *)

\* a Python int
PyInt(n) == [int |-> n]

\* whether x is a DPState
IsDPState(x) == "period" \in DOMAIN x

\* whether x[0] raises TypeError ('int' object is not subscriptable) and
\* x.period raises AttributeError
NotSubscriptable(x) == "int" \in DOMAIN x

\* t[0] of a tuple
Index0(t) ==
    IF "next" \in DOMAIN t THEN t.next
    ELSE IF "normal" \in DOMAIN t THEN t.normal
    ELSE IF "first" \in DOMAIN t THEN PyInt(t.first)
    ELSE IF "period" \in DOMAIN t THEN PyInt(t.period)
    ELSE t

\* the start states of the games played in the model: a full game, a game
\* that harvests nothing in its first round, and a game that starts exhausted
GameStarts == {DPState(0, 85, 0), DPState(0, 16, 0), DPState(0, 0, 2)}

\* deterministic solvers, one iteration of the loop of FindStrat:
\*   cur = self.Solve(cur)[0]; strategy.append(cur)
\* Solve on an int raises AttributeError in Transition (state.period)
FindStratStepDet(st) ==
    LET Take(r) ==
            [mem |-> r.mem, cur |-> Index0(r.ret),
             strategy |-> Append(st.strategy, Index0(r.ret)),
             steps |-> Append(st.steps, [arg |-> st.cur, ret |-> r.ret]),
             status |-> "running"]
    IN  IF NotSubscriptable(st.cur)
        THEN [st EXCEPT !.status = "AttributeError"]
        ELSE Take(Solve(st.mem, st.cur))

\* stochastic solver, one iteration of the loop of FindStrat:
\*   try: cur = self.Solve(cur)[0][0]
\*   except: cur = self.Solve(cur)
\*   strategy.append(cur[0][0])
\* Solve(cur)[0] is always a tuple, so the except branch runs only when Solve
\* itself raises (state[0] on an int, in Transition), and then raises again
FindStratStepStoch(st) ==
    LET Add(r, cur) ==
            IF NotSubscriptable(cur) \/ NotSubscriptable(Index0(cur))
            THEN [mem |-> r.mem, cur |-> cur, strategy |-> st.strategy,
                  steps |-> Append(st.steps, [arg |-> st.cur, ret |-> r.ret]),
                  status |-> "TypeError"]
            ELSE [mem |-> r.mem, cur |-> cur,
                  strategy |-> Append(st.strategy, Index0(Index0(cur))),
                  steps |-> Append(st.steps, [arg |-> st.cur, ret |-> r.ret]),
                  status |-> "running"]
        Take(r) == Add(r, Index0(Index0(r.ret)))
    IN  IF NotSubscriptable(st.cur)
        THEN [st EXCEPT !.status = "TypeError"]
        ELSE Take(Solve(st.mem, st.cur))

RECURSIVE FindStratLoop(_, _)

\* for i in range(int(self.numRounds)), until an iteration raises
FindStratLoop(i, st) ==
    IF i >= numRounds \/ st.status # "running" THEN st
    ELSE FindStratLoop(i + 1, IF solver = "Stoch" THEN FindStratStepStoch(st)
                              ELSE FindStratStepDet(st))

\* HealthCareDP.FindStrat: the list it returns (strategy), or the exception
\* it raises (status), with the Solve calls it made (steps)
FindStrat(mem, state) ==
    LET Return(st) ==
            [st EXCEPT !.status = IF st.status = "running" THEN "returned"
                                  ELSE st.status]
    IN  Return(FindStratLoop(0, [mem |-> mem, cur |-> state, strategy |-> <<>>,
                                 steps |-> <<>>, status |-> "running"]))

\* a call self.FindStrat(state) from outside, with everything it does
FindStratCall(state) ==
    /\ ncalls < MaxCalls
    /\ LET Return(r) ==
               /\ cache' = r.mem.cache
               /\ EnumCache' = r.mem.enum
               /\ call' = [op |-> "FindStrat", arg |-> state, status |-> r.status,
                           strategy |-> r.strategy, steps |-> r.steps,
                           writes |-> r.mem.writes]
       IN  Return(FindStrat([cache |-> cache, enum |-> EnumCache, writes |-> <<>>],
                            state))
    /\ prev' = call
    /\ ncalls' = ncalls + 1
    /\ UNCHANGED <<solver, stochHitChance, enumArg, enumRet>>

\* FindStrat on a Healthcare_DP.py or HealthcareDP_NewDegen.py instance
FindStratDeterministic(state) == solver # "Stoch" /\ FindStratCall(state)

\* FindStrat on a HealthcareDP_Stoch.py instance
FindStratStochastic(state) == solver = "Stoch" /\ FindStratCall(state)

----------------------------------------------------------------------------
(* Deviation analysis.  A game is the list of a player's rounds, each with   *)
(* the state [period, health, cash] and the cumulative life enjoyment; an    *)
(* element of a strategy is the pair [state, value].  A loss is kept as its  *)
(* numerator (hundredths) over the common denominator alternate[0][1].       *)

\* the period of the row BatchRun appends to every game
SentinelPeriod == 19

\* whether t[1] is a number
Index1IsNumber(t) == "total" \in DOMAIN t

\* the state a player who follows the solver reaches from what Solve returned
NextState(ret) ==
    IF "normal" \in DOMAIN ret THEN Index0(ret.normal) ELSE Index0(ret)

RECURSIVE OptimalPlayLoop(_, _, _, _)

\* the rounds k..numRounds of the game of a player who follows the solver:
\* the state reached and the life enjoyment earned so far
OptimalPlayLoop(k, total, r, game) ==
    LET Round(state, sub) ==
            OptimalPlayLoop(k + 1, total, sub,
                            Append(game, [state |-> state,
                                          value |-> total - Future(sub.ret)]))
        Step(state) ==
            IF IsDPState(state) THEN Round(state, Solve(r.mem, state)) ELSE game
    IN  IF k > numRounds THEN game ELSE Step(NextState(r.ret))

\* the game of a player who starts in state and follows the solver
OptimalPlay(state) ==
    LET Start(r) == OptimalPlayLoop(1, Future(r.ret), r, <<>>)
    IN  Start(Solve([cache |-> [k \in {} |-> 0], enum |-> [k \in {} |-> 0],
                     writes |-> <<>>], state))

RECURSIVE PadLoop(_, _)

\* for j in range(len(pad)): pad[j][1] = max(pad[-2][1] - pad[j][1], 0)
PadLoop(j, pad) ==
    IF j > Len(pad) THEN pad
    ELSE PadLoop(j + 1,
                 [pad EXCEPT ![j].value =
                     IF pad[Len(pad) - 1].value - pad[j].value > 0
                     THEN pad[Len(pad) - 1].value - pad[j].value ELSE 0])

\* the strategy BatchRun hands to AnalyzeStrat for one game
Pad(game, startState) ==
    <<[state |-> startState, value |-> game[Len(game)].value]>>
        \o PadLoop(1, game \o <<[state |-> DPState(SentinelPeriod, 0, 0), value |-> 0]>>)

RECURSIVE AlternateLoop(_, _, _)

\* for i in strategy[:-1]: alternate.append(self.Solve(i[0]))
AlternateLoop(strategy, k, st) ==
    LET Add(r) ==
            AlternateLoop(strategy, k + 1,
                          [mem |-> r.mem, alternate |-> Append(st.alternate, r.ret)])
    IN  IF k > Len(strategy) - 1 THEN st
        ELSE Add(Solve(st.mem, strategy[k].state))

\* alternate[i+1][1] + (strategy[i+1][1] - strategy[i+2][1]), i counted from 1
RemainingAvailable(alternate, strategy, i) ==
    Index1(alternate[i + 1]) + (strategy[i + 1].value - strategy[i + 2].value)

\* the numerator of losses[i]
LossNumerator(alternate, strategy, i) ==
    RemainingAvailable(alternate, strategy, i) - Index1(alternate[i])

\* what the computation of losses[i] raises
LossError(alternate, i) ==
    IF \/ ~Index1IsNumber(alternate[i + 1])
       \/ ~Index1IsNumber(alternate[i])
       \/ ~Index1IsNumber(alternate[1])
    THEN "TypeError"
    ELSE IF Index1(alternate[1]) = 0 THEN "ZeroDivisionError"
    ELSE "none"

\* an accumulated loss that holds the loss of round i alone
SumToLast(alternate, strategy, i) ==
    IF i = 0 THEN 0 ELSE LossNumerator(alternate, strategy, i)

RECURSIVE SumTo(_, _, _)

\* np.cumsum(losses[:i+1])[i], as a numerator
SumTo(alternate, strategy, i) ==
    IF i = 0 THEN 0
    ELSE SumTo(alternate, strategy, i - 1) + LossNumerator(alternate, strategy, i)

\* what writing the row of alternate[i] raises: row[0][0][0] in
\* Healthcare_DP.py, row[0][0].period in HealthcareDP_NewDegen.py,
\* row[0][0][0].period in HealthcareDP_Stoch.py
RowError(alt) ==
    CASE solver = "DP"       -> IF NotSubscriptable(Index0(alt)) THEN "TypeError"
                                ELSE "none"
      [] solver = "NewDegen" -> "none"
      [] solver = "Stoch"    -> IF NotSubscriptable(Index0(Index0(alt)))
                                THEN "AttributeError" ELSE "none"

\* the element of output for round i
OutputRow(alternate, strategy, i) ==
    [alternate |-> alternate[i],
     realized  |-> strategy[i + 1].state,
     remaining |-> RemainingAvailable(alternate, strategy, i),
     loss      |-> LossNumerator(alternate, strategy, i),
     cumLoss   |-> SumTo(alternate, strategy, i),
     over      |-> Index1(alternate[1]),
     observed  |-> strategy[i],
     earned    |-> strategy[i].value - strategy[i + 1].value]

\* the first i with errs[i] other than "none", or 0
FirstError(errs) ==
    IF \E i \in DOMAIN errs : errs[i] # "none"
    THEN CHOOSE i \in DOMAIN errs :
             errs[i] # "none" /\ \A j \in 1..(i - 1) : errs[j] = "none"
    ELSE 0

\* HealthCareDP.AnalyzeStrat: the rows it writes (records) or the exception it
\* raises (status)
AnalyzeStrat(mem, strategy) ==
    LET n == Len(strategy) - 2
        Write(a, bad) ==
            IF bad = 0
            THEN [mem |-> a.mem, status |-> "returned", alternate |-> a.alternate,
                  records |-> [i \in 1..n |-> OutputRow(a.alternate, strategy, i)]]
            ELSE [mem |-> a.mem, status |-> RowError(a.alternate[bad]),
                  alternate |-> a.alternate,
                  records |-> [i \in 1..(bad - 1) |->
                                  OutputRow(a.alternate, strategy, i)]]
        Losses(a, bad) ==
            IF bad = 0
            THEN Write(a, FirstError([i \in 1..n |-> RowError(a.alternate[i])]))
            ELSE [mem |-> a.mem, status |-> LossError(a.alternate, bad),
                  alternate |-> a.alternate, records |-> <<>>]
        Alternate(a) ==
            Losses(a, FirstError([i \in 1..n |-> LossError(a.alternate, i)]))
    IN  Alternate(AlternateLoop(strategy, 1, [mem |-> mem, alternate |-> <<>>]))

\* BatchRun on the data of one game
BatchRun(mem, game, startState) == AnalyzeStrat(mem, Pad(game, startState))

\* a call BatchRun([game], startState, HCDP, outfile) where game holds the
\* first rounds of a player who follows the solver
BatchRunCall(startState, rounds) ==
    /\ ncalls < MaxCalls
    /\ LET Return(game, r) ==
               /\ cache' = r.mem.cache
               /\ EnumCache' = r.mem.enum
               /\ call' = [op |-> "BatchRun", arg |-> startState, game |-> game,
                           status |-> r.status, records |-> r.records,
                           alternate |-> r.alternate, writes |-> r.mem.writes]
           Run(game) ==
               Return(game, BatchRun([cache |-> cache, enum |-> EnumCache,
                                      writes |-> <<>>], game, startState))
           Play(game) ==
               /\ rounds <= Len(game)
               /\ Run(SubSeq(game, 1, rounds))
       IN  Play(OptimalPlay(startState))
    /\ prev' = call
    /\ ncalls' = ncalls + 1
    /\ UNCHANGED <<solver, stochHitChance, enumArg, enumRet>>

\* the state the analysed games start from
AnalyzedStart == DPState(0, 85, 0)

NextStrat ==
    \/ \E state \in GameStarts :
          \/ SolveDP(state)
          \/ SolveNewDegen(state)
          \/ SolveStochastic(state)
          \/ FindStratDeterministic(state)
          \/ FindStratStochastic(state)
    \/ \E rounds \in 1..numRounds : BatchRunCall(AnalyzedStart, rounds)

SpecStrat == Init /\ [][NextStrat]_vars

----------------------------------------------------------------------------
(* Two states of equal period and cash solved on one instance: the state is  *)
(* drawn at construction, and the call solves it and the same state with     *)
(* more health.                                                               *)

\* the cash of the compared states
PairCash == {0, 3}

\* how much more health the second state has
PairGaps == {1, 10}

InitPair ==
    /\ solver \in Solvers
    /\ stochHitChance \in (IF solver = "Stoch" THEN {2} ELSE {0})
    /\ cache = [k \in {} |-> 0]
    /\ EnumCache = [k \in {} |-> 0]
    /\ ncalls = 0
    /\ call = NoCall
    /\ prev = NoCall
    /\ enumArg \in {DPState(p, h, c) :
                       p \in 0..(numRounds - 1), h \in 0..MaxHealth, c \in PairCash}
    /\ enumRet = <<>>

\* self.Solve(enumArg) followed by self.Solve of the state with more health
SolvePairCall(more) ==
    /\ ncalls = 0
    /\ enumArg.health + more <= MaxHealth
    /\ LET Record(state, r, writes) ==
               [op |-> "Solve", arg |-> state, ret |-> r.ret,
                path |-> r.path, newState |-> r.newState,
                cands |-> r.cands, hitCands |-> r.hitCands, writes |-> writes,
                depth |-> r.depth]
           Return(healthier, first, second) ==
               /\ cache' = second.mem.cache
               /\ EnumCache' = second.mem.enum
               /\ prev' = Record(enumArg, first, first.mem.writes)
               /\ call' = Record(healthier, second,
                                 SubSeq(second.mem.writes, Len(first.mem.writes) + 1,
                                        Len(second.mem.writes)))
           Second(healthier, first) ==
               Return(healthier, first, Solve(first.mem, healthier))
           First(healthier) ==
               Second(healthier,
                      Solve([cache |-> cache, enum |-> EnumCache, writes |-> <<>>],
                            enumArg))
       IN  First(DPState(enumArg.period, enumArg.health + more, enumArg.cash))
    /\ ncalls' = ncalls + 1
    /\ UNCHANGED <<solver, stochHitChance, enumArg, enumRet>>

\* the pair on a Healthcare_DP.py instance
SolvePairDP(more) == solver = "DP" /\ SolvePairCall(more)

\* the pair on a HealthcareDP_NewDegen.py instance
SolvePairNewDegen(more) == solver = "NewDegen" /\ SolvePairCall(more)

\* the pair on a HealthcareDP_Stoch.py instance
SolvePairStochastic(more) == solver = "Stoch" /\ SolvePairCall(more)

NextPair ==
    \E more \in PairGaps :
        \/ SolvePairDP(more)
        \/ SolvePairNewDegen(more)
        \/ SolvePairStochastic(more)

SpecPair == InitPair /\ [][NextPair]_vars

----------------------------------------------------------------------------
(* The calibration of an instance is held in plain attributes; the class     *)
(* defines no __setattr__, property or __slots__, so an assignment from       *)
(* outside takes effect and leaves the caches as they are.                    *)

\* HCDP.stochHitChance = p on a HealthcareDP_Stoch.py instance
SetStochHitChance(p) ==
    /\ solver = "Stoch"
    /\ p # stochHitChance
    /\ stochHitChance' = p
    /\ UNCHANGED <<solver, cache, EnumCache, ncalls, call, prev, enumArg, enumRet>>

NextCalibration ==
    \/ \E currentState \in StartStates :
          \/ SolveDP(currentState)
          \/ SolveNewDegen(currentState)
          \/ SolveStochastic(currentState)
    \/ \E p \in HitChances : SetStochHitChance(p)

SpecCalibration == Init /\ [][NextCalibration]_vars

----------------------------------------------------------------------------
(* InvestmentEnum on its own: the argument is drawn at construction *)

EnumHealths == {0, 85}

InitEnum ==
    /\ solver \in Solvers
    /\ stochHitChance = 0
    /\ cache = [k \in {} |-> 0]
    /\ EnumCache = [k \in {} |-> 0]
    /\ ncalls = 0
    /\ call = NoCall
    /\ prev = NoCall
    /\ enumArg \in {DPState(0, h, c) : h \in EnumHealths, c \in 0..MaxCash}
    /\ enumRet = <<>>

\* a call self.InvestmentEnum(cash) or self.InvestmentEnum(cash, health)
InvestmentEnumCall ==
    /\ ncalls < MaxCalls
    /\ LET Return(r) ==
               /\ enumRet' = r.list
               /\ EnumCache' = r.enum
       IN  Return(InvestmentEnum(EnumCache, enumArg))
    /\ ncalls' = ncalls + 1
    /\ UNCHANGED <<solver, stochHitChance, cache, call, prev, enumArg>>

NextEnum == InvestmentEnumCall

SpecEnum == InitEnum /\ [][NextEnum]_vars

----------------------------------------------------------------------------
(* StateEnum on its own: the state is drawn at construction *)

\* the largest cash of a state StateEnum is called with
MaxStateCash == 30

\* the healths of those states: exhausted, at the start of a game, full
StateHealths == {0, 85, 100}

InitStateEnum ==
    /\ solver \in Solvers
    /\ stochHitChance = 0
    /\ cache = [k \in {} |-> 0]
    /\ EnumCache = [k \in {} |-> 0]
    /\ ncalls = 0
    /\ call = NoCall
    /\ prev = NoCall
    /\ enumArg \in {DPState(1, h, c) : h \in StateHealths, c \in 0..MaxStateCash}
    /\ enumRet = <<>>

\* a call self.StateEnum(state); call records the Investments it enumerated
StateEnumCall ==
    /\ ncalls < MaxCalls
    /\ LET Return(investments, r) ==
               /\ enumRet' = r.list
               /\ EnumCache' = r.enum
               /\ call' = [op |-> "StateEnum", arg |-> enumArg,
                           investments |-> investments.list]
       IN  Return(InvestmentEnum(EnumCache, enumArg), StateEnum(EnumCache, enumArg))
    /\ prev' = call
    /\ ncalls' = ncalls + 1
    /\ UNCHANGED <<solver, stochHitChance, cache, enumArg>>

NextStateEnum == StateEnumCall

SpecStateEnum == InitStateEnum /\ [][NextStateEnum]_vars

----------------------------------------------------------------------------
(* Transition on its own, on an instance that may have solved the state      *)
(* before: the state is drawn at construction                                *)

\* the healths of the states Transition is called with
TransitionHealths == {0, 1, 7, 8, 16, 17, 49, 50, 51, 85, 99, 100}

InitTransition ==
    /\ solver \in Solvers
    /\ stochHitChance \in (IF solver = "Stoch" THEN {2} ELSE {0})
    /\ cache = [k \in {} |-> 0]
    /\ EnumCache = [k \in {} |-> 0]
    /\ ncalls = 0
    /\ call = NoCall
    /\ prev = NoCall
    /\ enumArg \in {DPState(p, h, c) :
                       p \in 0..numRounds, h \in TransitionHealths, c \in PairCash}
    /\ enumRet = <<>>

\* a call self.Transition(state)
TransitionCall ==
    /\ ncalls < MaxCalls
    /\ call' = [op |-> "Transition", arg |-> enumArg, ret |-> Transition(enumArg)]
    /\ prev' = call
    /\ ncalls' = ncalls + 1
    /\ UNCHANGED <<solver, stochHitChance, cache, EnumCache, enumArg, enumRet>>

NextTransition ==
    \/ SolveDP(enumArg)
    \/ SolveNewDegen(enumArg)
    \/ SolveStochastic(enumArg)
    \/ TransitionCall

SpecTransition == InitTransition /\ [][NextTransition]_vars

----------------------------------------------------------------------------
(* Solve on a state of the last rounds that holds more cash than the         *)
(* enumerations let an investment bank: the state is drawn at construction   *)

\* the states: before the last round and in it, with little health and much,
\* with no cash, more than BankWindow and more than BankLimit
WealthyStates ==
    {DPState(p, h, c) : p \in {numRounds - 1, numRounds}, h \in {16, 85, 100},
                        c \in {0, BankWindow + 5, BankLimit + 5}}

InitWealthy ==
    /\ solver \in Solvers
    /\ stochHitChance \in (IF solver = "Stoch" THEN {2} ELSE {0})
    /\ cache = [k \in {} |-> 0]
    /\ EnumCache = [k \in {} |-> 0]
    /\ ncalls = 0
    /\ call = NoCall
    /\ prev = NoCall
    /\ enumArg \in WealthyStates
    /\ enumRet = <<>>

NextWealthy ==
    \/ SolveDP(enumArg)
    \/ SolveNewDegen(enumArg)
    \/ SolveStochastic(enumArg)

SpecWealthy == InitWealthy /\ [][NextWealthy]_vars

----------------------------------------------------------------------------
(* The strategy functions of an instance called on their own *)

\* the investments they are called with
StrategyInvestments == (0 - 3)..3

\* the healths they are called with
StrategyHealths == {0, 50, 85, 100}

\* self.regenStrat.HealthRegained and self.enjoymentStrat.LifeEnjoyment
StrategyCall(investment, health) ==
    /\ ncalls < MaxCalls
    /\ call' = [op |-> "Strategy", investment |-> investment, health |-> health,
                regained |-> HealthRegained(investment, health),
                enjoyment |-> LifeEnjoyment(investment, health)]
    /\ prev' = call
    /\ ncalls' = ncalls + 1
    /\ UNCHANGED <<solver, stochHitChance, cache, EnumCache, enumArg, enumRet>>

NextStrategy ==
    \E investment \in StrategyInvestments, health \in StrategyHealths :
        StrategyCall(investment, health)

SpecStrategy == Init /\ [][NextStrategy]_vars

----------------------------------------------------------------------------
(* Properties of Solve and InvestmentEnum *)

\* the greatest element of a non-empty set of numbers
MaxOf(S) == CHOOSE m \in S : \A x \in S : x <= m

\* the total values of the candidates one loop of Solve evaluated
Totals(cands) == {cands[k].total : k \in DOMAIN cands}

\* the candidates that attain the greatest total value
Bests(cands) == {k \in DOMAIN cands : cands[k].total = MaxOf(Totals(cands))}

\* the caches of the instance as Solve receives them
Mem == [cache |-> cache, enum |-> EnumCache, writes |-> <<>>]

\* the last operation was Solve and it went through the candidate loop
Computed == call.op = "Solve" /\ call.path = "computed"

\* C1: Solve on a state whose period is beyond the horizon, or whose health is
\* 0, returns total value 0 and immediate utility 0 in all three solvers
TerminalSolveIsZero ==
    (call.op = "Solve" /\ (call.arg.period > numRounds \/ call.arg.health = 0))
        => (Index1(call.ret) = 0 /\ Index2(call.ret) = 0)

\* both terminal cases have been solved, one after the other
TerminalSolveSeen ==
    /\ prev.op = "Solve" /\ prev.arg.period > numRounds /\ prev.arg.health > 0
    /\ call.op = "Solve" /\ call.arg.health = 0 /\ call.arg.period = 0
    /\ call.arg.cash > 0

\* C2: when the post-transition state is neither terminal nor cached, the
\* total value a deterministic Solve returns is the greatest, over the pairs
\* StateEnum yields for the post-transition state, of utility plus the total
\* value of Solve on the resulting state
DetTotalIsMaximum ==
    (Computed /\ solver # "Stoch") =>
        LET Check(pairs) ==
                LET Total(k) == pairs[k].enjoy
                                  + Index1(Solve(Mem, pairs[k].state).ret)
                IN  /\ \E k \in DOMAIN pairs : Index1(call.ret) = Total(k)
                    /\ \A k \in DOMAIN pairs : Index1(call.ret) >= Total(k)
        IN  Check(StateEnum(EnumCache, call.newState).list)

\* a deterministic Solve chose among several candidates and the winner's
\* total value includes a future value
DetTotalIsMaximumSeen ==
    /\ Computed /\ solver # "Stoch"
    /\ Len(call.cands) > 1
    /\ \E k \in DOMAIN call.cands :
          /\ call.cands[k].total = Index1(call.ret)
          /\ call.cands[k].future > 0
          /\ call.cands[k].enjoy > 0

\* C3: whenever the post-transition state is not terminal, a deterministic
\* Solve returns, and holds in its cache, a triple whose next state is one of
\* the enumerated resulting states and whose total value is that candidate's
\* utility plus its future total value, never the value the loop started from
DetWinnerIsCandidate ==
    (call.op = "Solve" /\ solver # "Stoch" /\ ~ Terminal(call.newState)) =>
        /\ DOMAIN call.ret = {"next", "total", "enjoy"}
        /\ call.ret # Placeholder
        /\ call.newState \in DOMAIN cache
        /\ cache[call.newState] = call.ret
        /\ LET Check(pairs) ==
                   \E k \in DOMAIN pairs :
                       /\ pairs[k].state = call.ret.next
                       /\ call.ret.total = pairs[k].enjoy
                                             + Index1(Solve(Mem, pairs[k].state).ret)
           IN  Check(StateEnum(EnumCache, call.newState).list)

\* of two or more candidates that attain the greatest total value, the winner
\* is the first in enumeration order
FirstOfTies(cands, winner) ==
    Cardinality(Bests(cands)) >= 2 =>
        LET Check(first) ==
                /\ \A k \in Bests(cands) : first <= k
                /\ DOMAIN winner = {"next", "total", "enjoy"}
                /\ winner = Winner(cands[first].state, cands[first].total,
                                   cands[first].enjoy)
        IN  Check(CHOOSE k \in Bests(cands) : \A j \in Bests(cands) : k <= j)

\* C4: when several candidates of one Solve step have the same greatest total
\* value, the winner returned is the one that comes first in the enumeration
\* order, in the deterministic loop and in both loops of the Stoch solver
FirstSeenWinsTies ==
    Computed =>
        IF solver = "Stoch"
        THEN /\ FirstOfTies(call.cands, call.ret.normal)
             /\ FirstOfTies(call.hitCands, call.ret.hit)
        ELSE FirstOfTies(call.cands, call.ret)

\* two candidates with different resulting states tied for the greatest total
TieSeen ==
    /\ Computed
    /\ \E j, k \in Bests(call.cands) :
          j < k /\ call.cands[j].state # call.cands[k].state

\* C5: the second of two consecutive calls Solve(s) returns what the first
\* returned, and is served from the cache unless the post-transition state is
\* terminal
SolveTwiceSame ==
    (prev.op = "Solve" /\ call.op = "Solve" /\ prev.arg = call.arg) =>
        /\ call.ret = prev.ret
        /\ (~ (call.newState.period > numRounds \/ call.newState.health <= 0)
                => call.path = "cached")

\* the same state was solved twice in a row, the first time through the loop
SolveTwiceSeen ==
    /\ prev.op = "Solve" /\ call.op = "Solve" /\ prev.arg = call.arg
    /\ prev.path = "computed" /\ call.path = "cached"
    /\ Index1(call.ret) # 0

\* C6: every Investment InvestmentEnum returns has three non-negative
\* components that add up to the cash it was called with, under either policy
InvestmentsConserveCash ==
    ncalls >= 1 =>
        \A k \in DOMAIN enumRet :
            /\ enumRet[k].healthExpenditure >= 0
            /\ enumRet[k].lifeExpenditure >= 0
            /\ enumRet[k].cashRemaining >= 0
            /\ enumRet[k].healthExpenditure + enumRet[k].lifeExpenditure
                 + enumRet[k].cashRemaining = enumArg.cash

\* an enumeration that spends on health, spends on life and banks
InvestmentsSeen ==
    /\ ncalls >= 1
    /\ enumArg.cash > BankWindow
    /\ \E k \in DOMAIN enumRet :
          /\ enumRet[k].healthExpenditure > 0
          /\ enumRet[k].lifeExpenditure > 0
          /\ enumRet[k].cashRemaining > 0

\* what Solve on a candidate's state hands back as its future value in the
\* Stoch solver once that state is solved: 0 past a terminal transition, the
\* cached blended expectation otherwise
BlendedFuture(state) ==
    LET Read(newState) ==
            IF newState.period > numRounds \/ newState.health <= 0 THEN 0
            ELSE IF newState \in DOMAIN cache THEN cache[newState].expected
            ELSE -1
    IN  Read(Transition(state))

BlendBetweenBranches ==
    solver = "Stoch" =>
        /\ stochHitChance \in 0..10
        /\ \A s \in DOMAIN cache :
              LET n == Index1(cache[s].normal)
                  h == Index1(cache[s].hit)
                  e == cache[s].expected
              IN  (h <= e /\ e <= n) \/ (n <= e /\ e <= h)

\* a cached expectation strictly between its two branch totals
BlendBetweenSeen ==
    /\ solver = "Stoch"
    /\ \E s \in DOMAIN cache :
          /\ Index1(cache[s].hit) < cache[s].expected
          /\ cache[s].expected < Index1(cache[s].normal)

\* C10: a state whose health is 0 is terminal and absorbing: Solve on it
\* returns 0, and every branch evaluated from a health-0 state has total value
\* 0, the hit state of the Stoch solver included
ExhaustedIsWorthless ==
    /\ (call.op = "Solve" /\ call.arg.health = 0) => Index1(call.ret) = 0
    /\ (Computed /\ solver = "Stoch" /\ HitState(call.newState).health = 0) =>
          /\ \A k \in DOMAIN call.hitCands : call.hitCands[k].total = 0
          /\ Index1(call.ret.hit) = 0

----------------------------------------------------------------------------
(* The two enumeration policies, element by element *)

\* the Investments of a list, as a set
Elements(list) == {list[k] : k \in DOMAIN list}

PrunedEnumExact ==
    (ncalls >= 1 /\ solver # "NewDegen") =>
        LET c == enumArg.cash
            Gain(h) == IF solver = "Stoch" THEN StochHealthRegained(h)
                       ELSE DPHealthRegained(h)
            retained == {enumRet[k].healthExpenditure : k \in DOMAIN enumRet}
            Last(h) == CHOOSE r \in retained :
                           r < h /\ \A q \in retained : q < h => q <= r
            Window(h) == (IF c - h - 20 > 0 THEN c - h - 20 ELSE 0)..(c - h)
        IN  /\ retained \subseteq 0..c
            /\ 0 \in retained
            /\ \A h \in 1..c : h \in retained <=> Gain(h) # Gain(Last(h))
            /\ Elements(enumRet)
                 = UNION {{Investment(h, l, c - h - l) : l \in Window(h)} : h \in retained}
            /\ \A k \in 1..(Len(enumRet) - 1) :
                  \/ enumRet[k].healthExpenditure < enumRet[k + 1].healthExpenditure
                  \/ /\ enumRet[k].healthExpenditure = enumRet[k + 1].healthExpenditure
                     /\ enumRet[k].lifeExpenditure < enumRet[k + 1].lifeExpenditure

\* a plateau-pruned enumeration that skips an expenditure, retains a later one
\* and cuts the consumption window at 20 below the remainder
PrunedEnumSeen ==
    /\ ncalls >= 1 /\ solver = "DP"
    /\ enumArg.cash > 65
    /\ \A k \in DOMAIN enumRet : enumRet[k].healthExpenditure # 1
    /\ \E k \in DOMAIN enumRet : enumRet[k].healthExpenditure = 65
    /\ \A k \in DOMAIN enumRet :
          enumRet[k].healthExpenditure = 0 => enumRet[k].lifeExpenditure >= enumArg.cash - 20

----------------------------------------------------------------------------
(* Trajectory extraction *)

\* C11: in the deterministic solvers FindStrat(s0) returns a list of exactly
\* numRounds states, the first the winning next-state of Solve(s0) and every
\* later one the winning next-state of Solve of the element before it
FindStratFollowsWinners ==
    (call.op = "FindStrat" /\ solver # "Stoch") =>
        /\ call.status = "returned"
        /\ Len(call.strategy) = numRounds
        /\ \A k \in 1..numRounds :
              /\ IsDPState(call.strategy[k])
              /\ call.steps[k].arg = (IF k = 1 THEN call.arg ELSE call.strategy[k - 1])
              /\ call.steps[k].ret # Placeholder
              /\ call.steps[k].ret = Solve(Mem, call.steps[k].arg).ret
              /\ call.strategy[k] = call.steps[k].ret.next

\* C12: in the stochastic solver FindStrat(s0) completes without error and
\* returns a list of exactly numRounds states, each the normal-branch winning
\* next-state of Solve of the previous state of the path
StochFindStratReturnsPath ==
    (call.op = "FindStrat" /\ solver = "Stoch") =>
        /\ call.status = "returned"
        /\ Len(call.strategy) = numRounds
        /\ \A k \in 1..numRounds :
              /\ IsDPState(call.strategy[k])
              /\ call.steps[k].arg = (IF k = 1 THEN call.arg ELSE call.strategy[k - 1])
              /\ call.strategy[k] = NextState(call.steps[k].ret)

----------------------------------------------------------------------------
(* Monotonicity *)

\* C13: of two states with equal period and cash solved with the same
\* coefficients and horizon, the one with the greater health has a Solve
\* total value greater than or equal to that of the other
MoreHealthNeverWorse ==
    (/\ ncalls >= 1
     /\ call.op = "Solve" /\ prev.op = "Solve"
     /\ call.arg.period = prev.arg.period
     /\ call.arg.cash = prev.arg.cash
     /\ call.arg.health > prev.arg.health) =>
        Future(call.ret) >= Future(prev.ret)

\* two such states of which the healthier is worth strictly more, both
\* worth something
MoreHealthSeen ==
    /\ ncalls >= 1
    /\ call.op = "Solve" /\ prev.op = "Solve"
    /\ call.arg.period = prev.arg.period
    /\ call.arg.cash = prev.arg.cash
    /\ call.arg.health > prev.arg.health
    /\ prev.path = "computed" /\ call.path = "computed"
    /\ Future(prev.ret) > 0
    /\ Future(call.ret) > Future(prev.ret)

----------------------------------------------------------------------------
(* Determinism *)

\* the caches of an instance that has solved nothing
Fresh == [cache |-> [k \in {} |-> 0], enum |-> [k \in {} |-> 0], writes |-> <<>>]

\* C14: an instance that solved other states before returns from Solve and
\* from FindStrat what an identical instance that solved nothing returns: the
\* same Solve result, the same trajectory and the same Solve result at every
\* step of it
SameAsFreshInstance ==
    /\ call.op = "Solve" => call.ret = Solve(Fresh, call.arg).ret
    /\ call.op = "FindStrat" =>
          LET Same(fresh) ==
                  /\ call.status = fresh.status
                  /\ call.strategy = fresh.strategy
                  /\ call.steps = fresh.steps
          IN  Same(FindStrat(Fresh, call.arg))

\* a trajectory extracted in full by an instance that had solved a state
\* before and so computed fewer entries than a fresh instance would
SameAsFreshSeen ==
    /\ call.op = "FindStrat" /\ call.status = "returned"
    /\ Len(call.strategy) = numRounds
    /\ prev.op = "Solve" /\ prev.path = "computed"
    /\ Len(call.writes) < Len(FindStrat(Fresh, call.arg).mem.writes)

----------------------------------------------------------------------------
(* Deviation analysis *)

\* the strategy of the latest BatchRun call holds the start state and the
\* states of the trajectory FindStrat extracts, each with the total Solve
\* returns for it, and ends with the sentinel worth 0
OptimalTrajectoryAnalysed ==
    /\ call.op = "BatchRun"
    /\ Len(call.game) = numRounds
    /\ LET Same(strategy, found) ==
               /\ found.status = "returned"
               /\ strategy[1].state = call.arg
               /\ \A k \in 1..numRounds : strategy[k + 1].state = found.strategy[k]
               /\ \A k \in 1..(numRounds + 1) :
                     strategy[k].value = Future(Solve(Mem, strategy[k].state).ret)
               /\ strategy[numRounds + 2].value = 0
       IN  Same(Pad(call.game, call.arg), FindStrat(Fresh, call.arg))

\* C15: when AnalyzeStrat is given the optimal trajectory of FindStrat with
\* the remaining optimal totals of its states, ending with the zero sentinel,
\* the per-round loss and the cumulative loss are 0 at every round
OptimalTrajectoryHasNoLoss ==
    (solver # "Stoch" /\ OptimalTrajectoryAnalysed) =>
        /\ call.status = "returned"
        /\ Len(call.records) = numRounds
        /\ \A i \in DOMAIN call.records :
              call.records[i].loss = 0 /\ call.records[i].cumLoss = 0

\* C16: when the analyzer receives a game with fewer rounds than numRounds it
\* fails with an explicit data error and emits no records for that game
ShortGameIsRejected ==
    (call.op = "BatchRun" /\ Len(call.game) < numRounds) =>
        /\ call.status \notin {"returned", "TypeError", "AttributeError",
                               "ZeroDivisionError"}
        /\ call.records = <<>>

----------------------------------------------------------------------------
(* The solve cache *)

\* C17: the solve cache of an instance only grows: a call of Solve, FindStrat
\* or BatchRun/AnalyzeStrat keeps every entry as it was, and the keys it
\* writes are new and written once each
CacheAppendOnly ==
    [][/\ \A k \in DOMAIN cache : k \in DOMAIN cache' /\ cache'[k] = cache[k]
       /\ \A i \in DOMAIN call'.writes : call'.writes[i] \notin DOMAIN cache
       /\ \A i, j \in DOMAIN call'.writes :
             i # j => call'.writes[i] # call'.writes[j]
       /\ DOMAIN cache' = DOMAIN cache \cup Elements(call'.writes)]_vars

\* a FindStrat or BatchRun call that added entries to a cache that already
\* held some, after which every earlier entry is still there
CacheGrewSeen ==
    /\ ncalls = 2
    /\ call.op \in {"FindStrat", "BatchRun"}
    /\ prev.op \in {"Solve", "FindStrat", "BatchRun"}
    /\ prev.writes # <<>>
    /\ call.writes # <<>>
    /\ Elements(prev.writes) \subseteq DOMAIN cache

\* C18: the solve cache is never consulted under a calibration other than the
\* one its entries were computed under: a result Solve takes from the cache is
\* the result the instance's present calibration gives
CachedUnderSameCalibration ==
    [][(ncalls' = ncalls + 1 /\ call'.op = "Solve" /\ call'.path = "cached") =>
          call'.ret = Solve(Fresh, call'.arg).ret]_vars

----------------------------------------------------------------------------
(* StateEnum *)

\* the position of the first Investment of the latest StateEnum call whose
\* outcome is the pair
FirstOccurrence(pair) ==
    CHOOSE k \in DOMAIN call.investments :
        /\ Invest(call.arg, call.investments[k]) = pair
        /\ \A j \in 1..(k - 1) : Invest(call.arg, call.investments[j]) # pair

\* C21: StateEnum(state) returns every distinct (state, enjoyment) outcome of
\* the enumerated Investments exactly once, in order of first occurrence
StateEnumDistinctOutcomes ==
    call.op = "StateEnum" =>
        /\ \A i, j \in DOMAIN enumRet : i # j => enumRet[i] # enumRet[j]
        /\ Elements(enumRet)
             = {Invest(call.arg, call.investments[k]) : k \in DOMAIN call.investments}
        /\ \A i \in 1..(Len(enumRet) - 1) :
              FirstOccurrence(enumRet[i]) < FirstOccurrence(enumRet[i + 1])

\* a StateEnum call in which two Investments had the same outcome
StateEnumCoincidenceSeen ==
    /\ call.op = "StateEnum"
    /\ Len(enumRet) >= 2
    /\ Len(enumRet) < Len(call.investments)

----------------------------------------------------------------------------
(* Transition *)

\* C22: Transition(state) returns the state with the period incremented, the
\* health degenerated for the new period and the cash increased by the
\* harvest of the health before the decay, and changes neither its argument
\* nor a cache
TransitionIsRoundStep ==
    [][(ncalls' = ncalls + 1 /\ call'.op = "Transition") =>
          /\ call'.arg = enumArg /\ enumArg' = enumArg
          /\ call'.ret.period = enumArg.period + 1
          /\ call'.ret.health = HealthDegeneration(enumArg.health, enumArg.period + 1)
          /\ call'.ret.cash = enumArg.cash + HarvestAmount(enumArg.health)
          /\ cache' = cache
          /\ EnumCache' = EnumCache]_vars

\* a transition, on an instance whose caches hold entries, of a state whose
\* harvest before the decay is more than its harvest after the decay
TransitionSeen ==
    /\ call.op = "Transition"
    /\ DOMAIN cache # {} /\ DOMAIN EnumCache # {}
    /\ call.ret.health > 0 /\ call.ret.health < call.arg.health
    /\ call.ret.cash > call.arg.cash + HarvestAmount(call.ret.health)

----------------------------------------------------------------------------
(* Termination *)

\* the periods from the post-transition period q to numRounds, and the
\* terminal call
FramesLeft(q) == (IF numRounds - q + 1 > 0 THEN numRounds - q + 1 ELSE 0) + 1

\* C23: every Solve call returns, each recursive Solve is made on a state
\* whose post-transition period is one more than the caller's, and the
\* nesting depth of the call is at most the number of periods left until
\* numRounds plus the terminal call
SolveDepthBounded ==
    call.op = "Solve" =>
        /\ call.depth >= 1
        /\ call.depth <= FramesLeft(call.newState.period)
        /\ \A k \in DOMAIN call.cands :
              Transition(call.cands[k].state).period = call.newState.period + 1
        /\ \A k \in DOMAIN call.hitCands :
              Transition(call.hitCands[k].state).period = call.newState.period + 1

\* a Solve call from the start of a game that nested as deep as the bound
SolveDepthSeen ==
    /\ call.op = "Solve" /\ call.path = "computed"
    /\ call.arg.period = 0
    /\ call.depth = numRounds + 1

----------------------------------------------------------------------------
(* Accumulated loss *)

\* the strategy the latest BatchRun call handed to AnalyzeStrat
Analysed == Pad(call.game, call.arg)

\* optimal(k): the Solve total at the k-th observed state, k counted from 0
Optimal(k) == Future(Solve(Mem, Analysed[k + 1].state).ret)

\* the numerator of loss_i = (optimal(i+1) + actualUtility(i+1) - optimal(i))
\* / optimal(0), i counted from 0, actualUtility(i+1) being the difference of
\* the values of the observed entries i+1 and i+2
Loss(i) ==
    Optimal(i + 1) + (Analysed[i + 2].value - Analysed[i + 3].value) - Optimal(i)

RECURSIVE LossSum(_)

\* loss_0 + ... + loss_i, as a numerator
LossSum(i) == IF i < 0 THEN 0 ELSE LossSum(i - 1) + Loss(i)

\* C24: in every record i that AnalyzeStrat emits the accumulated loss is
\* loss_0 + ... + loss_i, each loss taken over optimal(0)
AccumulatedLossIsPrefixSum ==
    call.op = "BatchRun" =>
        \A r \in DOMAIN call.records :
            /\ call.records[r].over = Optimal(0)
            /\ call.records[r].loss = Loss(r - 1)
            /\ call.records[r].cumLoss = LossSum(r - 1)

\* an analysis that emitted a second record whose accumulated loss differs
\* from its own loss
AccumulatedLossSeen ==
    /\ call.op = "BatchRun" /\ call.status = "returned"
    /\ Len(call.records) >= 2
    /\ call.records[1].loss # 0
    /\ call.records[2].cumLoss # call.records[2].loss

----------------------------------------------------------------------------
(* Strategy functions *)

\* C25: in every variant HealthRegained and LifeEnjoyment return 0 for every
\* investment of 0 or less, whatever the health
NothingForNoInvestment ==
    (call.op = "Strategy" /\ call.investment <= 0) =>
        call.regained = 0 /\ call.enjoyment = 0

----------------------------------------------------------------------------
(* Ranges of the states the solver handles *)

\* health within 0..MaxHealth and cash not below 0
InRange(state) == state.health \in 0..MaxHealth /\ state.cash >= 0

\* the states of a list of evaluated candidates
CandidateStates(seen) == {seen[k].state : k \in DOMAIN seen}

\* the DPStates a tuple of Solve holds in its winner positions
WinnerStates(t) ==
    IF IsDPState(t) THEN {t}
    ELSE IF "next" \in DOMAIN t THEN {t.next}
    ELSE {}

\* the DPStates a Solve result holds: the winner of the deterministic solvers,
\* the winners of the two branches of the Stoch solver
ResultStates(ret) ==
    IF "normal" \in DOMAIN ret
    THEN WinnerStates(ret.normal) \cup WinnerStates(ret.hit)
    ELSE WinnerStates(ret)

\* the states a Solve call produced, returned or left in the cache
HandledStates ==
    {call.newState}
        \cup (IF solver = "Stoch" THEN {HitState(call.newState)} ELSE {})
        \cup CandidateStates(call.cands) \cup CandidateStates(call.hitCands)
        \cup ResultStates(call.ret)
        \cup DOMAIN cache
        \cup UNION {ResultStates(cache[k]) : k \in DOMAIN cache}

\* C26: a Solve call on a state with health in 0..100 and cash >= 0 produces
\* by Transition, by Invest and as hit state, returns as winner and stores in
\* the cache only states with health in 0..100 and cash >= 0
HandledStatesInRange ==
    (call.op = "Solve" /\ InRange(call.arg)) =>
        \A state \in HandledStates : InRange(state)

----------------------------------------------------------------------------
(* Memoization *)

\* C27: whatever Solve, FindStrat and AnalyzeStrat calls the instance served
\* before, Solve returns for every state what an instance with empty caches
\* returns for it
MemoizationIsTransparent ==
    \A s \in GameStarts \cup {DPState(1, 77, 0), DPState(numRounds, 85, 3)} :
        Solve(Mem, s).ret = Solve(Fresh, s).ret

\* after a trajectory extraction or a deviation analysis the caches are filled:
\* Solve would answer one state from the cache and compute another
MemoizationSeen ==
    /\ call.op \in {"FindStrat", "BatchRun"}
    /\ \E s \in StartStates : Solve(Mem, s).path = "cached"
    /\ \E s \in StartStates : Solve(Mem, s).path = "computed"

----------------------------------------------------------------------------
(* Plateau pruning *)

\* every Investment of the plateau-pruned policy's window: any health
\* expenditure, at most BankWindow banked
UnprunedInvestments(cash) ==
    UNION {{Investment(h, l, cash - h - l) :
                l \in (IF cash - h - BankWindow > 0 THEN cash - h - BankWindow ELSE 0)
                          ..(cash - h)} :
           h \in 0..cash}

\* the best total of a deterministic solver that evaluates every Investment of
\* the window, and 0 when none earns more
RECURSIVE UnprunedTotal(_)
UnprunedTotal(currentState) ==
    LET Best(newState) ==
            MaxOf({0} \cup {Invest(newState, investment).enjoy
                              + UnprunedTotal(Invest(newState, investment).state) :
                            investment \in UnprunedInvestments(newState.cash)})
        After(newState) == IF Terminal(newState) THEN 0 ELSE Best(newState)
    IN  After(Transition(currentState))

\* the Investments of the window that the enumeration of the call left out
Dropped ==
    UnprunedInvestments(call.newState.cash)
        \ Elements(InvestmentEnum(Fresh.enum, call.newState).list)

\* C28: for every Investment with at most 20 banked that the plateau-pruned
\* enumeration drops, the retained list holds an Investment with the same
\* resulting state, at least the consumption and at least the utility, and the
\* total Solve returns is the total of the enumeration that drops nothing
PruningLosesNoValue ==
    (call.op = "Solve" /\ solver # "NewDegen") =>
        /\ call.path = "computed" =>
              \A investment \in Dropped :
                  \E kept \in Elements(InvestmentEnum(Fresh.enum, call.newState).list) :
                      /\ Invest(call.newState, kept).state
                           = Invest(call.newState, investment).state
                      /\ kept.lifeExpenditure >= investment.lifeExpenditure
                      /\ Invest(call.newState, kept).enjoy
                           >= Invest(call.newState, investment).enjoy
        /\ solver = "DP" => Index1(call.ret) = UnprunedTotal(call.arg)

\* Solve of Healthcare_DP.py searched an enumeration that dropped expenditures
\* below and above the retained ones, and found a winner
PruningSeen ==
    /\ call.op = "Solve" /\ call.path = "computed" /\ solver = "DP"
    /\ \E investment \in Dropped : investment.healthExpenditure = 1
    /\ \E investment \in Dropped : investment.healthExpenditure > 6
    /\ Index1(call.ret) > 0

----------------------------------------------------------------------------
(* The cash of the states the solver invests into *)

\* whether the tuple is a winner found by the search, whose [0] is a state
FoundWinner(t) == "next" \in DOMAIN t /\ t # Placeholder

\* the post-investment states a computed Solve result returns as winners
PostInvestmentWinners(ret) ==
    IF "normal" \in DOMAIN ret
    THEN (IF FoundWinner(ret.normal) THEN {ret.normal.next} ELSE {})
            \cup (IF FoundWinner(ret.hit) THEN {ret.hit.next} ELSE {})
    ELSE IF FoundWinner(ret) THEN {ret.next} ELSE {}

\* whether the state is what Invest makes of base and an enumerated
\* Investment, with the Investment's banked remainder as its cash
CarriesRemainder(base, state) ==
    \E investment \in Elements(InvestmentEnum(Fresh.enum, base).list) :
        /\ state = Invest(base, investment).state
        /\ state.cash = investment.cashRemaining
        /\ state.cash = base.cash - investment.healthExpenditure
                                  - investment.lifeExpenditure

\* C29: every post-investment state Solve recurses on or returns as winner has
\* as cash the banked remainder of its Investment: at most 20 under the
\* plateau-pruned policy, a multiple of 10 of at most 110 under the
\* exhaustive-banked policy
CashIsBankedRemainder ==
    (call.op = "Solve" /\ call.path = "computed") =>
        /\ \A state \in CandidateStates(call.cands) :
              CarriesRemainder(call.newState, state)
        /\ \A state \in CandidateStates(call.hitCands) :
              CarriesRemainder(HitState(call.newState), state)
        /\ PostInvestmentWinners(call.ret)
              \subseteq CandidateStates(call.cands) \cup CandidateStates(call.hitCands)
        /\ \A state \in CandidateStates(call.cands) \cup CandidateStates(call.hitCands) :
              IF solver = "NewDegen"
              THEN state.cash % BankStep = 0 /\ state.cash \in 0..(BankLimit - 1)
              ELSE state.cash \in 0..BankWindow

\* Solve of HealthcareDP_NewDegen.py searched from a state with more cash than
\* an investment may bank, recursed on a state that banks the most, and
\* returned a winner it found
CashIsBankedRemainderSeen ==
    /\ call.op = "Solve" /\ call.path = "computed" /\ solver = "NewDegen"
    /\ call.newState.cash > BankLimit
    /\ \E state \in CandidateStates(call.cands) : state.cash = BankLimit - 1
    /\ PostInvestmentWinners(call.ret) # {}

----------------------------------------------------------------------------
(* Keys of the solve cache *)

\* C30: every key of self.cache is a post-transition state that is not
\* terminal (period from 1 to numRounds, health above 0), every state a Solve
\* call stored was stored under such a key, and a Solve call whose
\* post-transition state is terminal stores nothing
CacheKeysAreNonTerminal ==
    /\ \A k \in DOMAIN cache :
          k.period \in 1..numRounds /\ k.health > 0 /\ ~Terminal(k)
    /\ call.op = "Solve" =>
          /\ \A w \in DOMAIN call.writes :
                call.writes[w] \in DOMAIN cache /\ ~Terminal(call.writes[w])
          /\ Terminal(call.newState) =>
                call.path = "terminal" /\ call.writes = <<>>
          /\ call.path = "computed" => call.newState \in DOMAIN cache

\* a Solve call with a terminal post-transition state, on an instance whose
\* cache an earlier call filled with a key of the last period and another
TerminalSolveOnFilledCache ==
    /\ call.op = "Solve" /\ Terminal(call.newState)
    /\ \E k \in DOMAIN cache : k.period = numRounds
    /\ Cardinality(DOMAIN cache) >= 2

====
